---- MODULE Spec2Model ----
(***************************************************************************)
(* Factor pipeline of Single-Factor-Test:                                  *)
(*   calculate_factor_MOM_vol_adj  (src/factor/factor.py)                  *)
(*   standardize_factor            (src/factor/postprocessing.py)          *)
(*   neutralize_factor             (src/factor/postprocessing.py)          *)
(* and its data preparation:                                               *)
(*   merge_all_stocks_data         (src/data/merge_data.py)                *)
(*   download_batch_data           (src/data.py, src/data/get_raw_data.py) *)
(*   add_info_to_stock_data        (src/data/get_raw_data.py)              *)
(*   download_stock_data           (src/data.py, src/data/get_raw_data.py) *)
(* Arrays are functions over 0..len-1, as the numpy positions they model.  *)
(* Floating point values are kept exact: a float is a record               *)
(*   [k, n, d, r] : k = "nan" | "inf" (sign n) | "fin" (n / (d * sqrt(r))) *)
(***************************************************************************)
EXTENDS Integers, Sequences, FiniteSets, TLC

VARIABLES
    stage,          \* which function of the pipeline is running
    pc,             \* position inside that function
    groups,         \* df['股票代码'].values
    prices,         \* df['收盘'].values
    factor_values,  \* the result array of calculate_factor_MOM_vol_adj
    gidx,           \* index of the (start, end) pair the for loop is at
    std_columns,    \* standardize_factor: data.columns
    std_dates,      \* standardize_factor: data['日期']
    std_factor,     \* standardize_factor: data['MOM_vol_adj_3D']
    median_col,     \* data['MOM_vol_adj_3D.median_std']
    rank_col,       \* data['MOM_vol_adj_3D.rank_std']
    columns,        \* neutralize_factor: factor_data.columns
    index,          \* neutralize_factor: data.index, the label of each row
    industry_dtype, \* dtype of data['行业']: "object" (labels) or "numeric"
    panel,          \* neutralize_factor: the rows of data
    factor_columns, \* the standardized columns found in data
    fidx,           \* index of the factor column the outer loop is at
    date_i,         \* index of the date the groupby loop is at
    neutralized,    \* the Series daily_cross_sectional_neutralize fills
    design,         \* per date, the columns of the X built for it
    out,            \* data[<factor>_neutral] for the finished factor columns
    printed,        \* the messages printed by the except branches
    raised,         \* the exception neutralize_factor ended with
    merge_columns,  \* merge_all_stocks_data: the columns of the stock CSVs
    csv_files,      \* glob.glob(dataset/*.csv), one frame per file
    file_i,         \* index of the file the read loop is at
    all_dataframes, \* the frames read and kept
    merged_df,      \* the rows of the merged frame
    index_levels,   \* the names of merged_df.index after set_index
    saved,          \* whether all_stocks.parquet was written
    batch_module,   \* download_batch_data: "data" (src/data.py) or
                    \* "get_raw_data" (src/data/get_raw_data.py)
    stock_list,     \* the stock codes to download, in order
    existing,       \* the stock codes whose CSV file exists in output_dir
    success,        \* the local variable success: "unbound", "True", "False"
    batch_i,        \* index of the stock the for loop is at
    results,        \* the list download_batch_data returns
    batch_log,      \* per stock met: did its file exist, was it downloaded
    stock_files,    \* add_info_to_stock_data: the stock CSVs as first found
    disk_cols,      \* per stock CSV, the columns of the file now on disk
    info_i,         \* index of the file the loop is at
    info_requests,  \* how many times get_stock_info was called
    rewritten,      \* the indices of the files written back with to_csv
    dl_code,        \* download_stock_data: stock_code ("nan", "blank", "valid")
    max_retries,    \* the parameter max_retries
    attempt,        \* the loop variable of: for attempt in range(max_retries)
    provider_calls, \* how many times ak.stock_zh_a_hist was called
    dl_log,         \* what each attempt made so far ended in
    csv_written,    \* whether df.to_csv completed
    dl_result       \* the tuple returned: success and count

momVars == <<groups, prices, factor_values, gidx>>
stdVars == <<std_columns, std_dates, std_factor, median_col, rank_col>>
neutVars == <<columns, industry_dtype, panel, index, factor_columns, fidx, date_i,
              neutralized, design, out, printed, raised>>
mergeVars == <<merge_columns, csv_files, file_i, all_dataframes, merged_df,
               index_levels, saved>>
batchVars == <<batch_module, stock_list, existing, success, batch_i, results,
               batch_log>>
infoVars == <<stock_files, disk_cols, info_i, info_requests, rewritten>>
dlVars == <<dl_code, max_retries, attempt, provider_calls, dl_log, csv_written,
            dl_result>>
dataVars == <<mergeVars, batchVars, infoVars, dlVars>>
vars == <<stage, pc, momVars, stdVars, neutVars, dataVars>>

Empty == <<>>
MomIdle == groups = Empty /\ prices = Empty /\ factor_values = Empty /\ gidx = 0
StdIdle ==
    /\ std_columns = {} /\ std_dates = Empty /\ std_factor = Empty
    /\ median_col = Empty /\ rank_col = Empty
NeutIdle ==
    /\ columns = {} /\ industry_dtype = "object" /\ panel = Empty
    /\ index = Empty
    /\ factor_columns = Empty /\ fidx = 0 /\ date_i = 0
    /\ neutralized = Empty /\ design = Empty /\ out = Empty
    /\ printed = Empty /\ raised = [err |-> "none", cols |-> {}]
MergeIdle ==
    /\ merge_columns = {} /\ csv_files = Empty /\ file_i = 0
    /\ all_dataframes = Empty /\ merged_df = Empty /\ index_levels = Empty
    /\ saved = FALSE
BatchIdle ==
    /\ batch_module = "data" /\ stock_list = Empty /\ existing = {}
    /\ success = "unbound" /\ batch_i = 0 /\ results = Empty
    /\ batch_log = Empty
InfoIdle ==
    /\ stock_files = Empty /\ disk_cols = Empty /\ info_i = 0
    /\ info_requests = 0 /\ rewritten = {}
NoResult == [success |-> FALSE, count |-> -1]
DownloadIdle ==
    /\ dl_code = "valid" /\ max_retries = 0 /\ attempt = 0
    /\ provider_calls = 0 /\ dl_log = Empty /\ csv_written = FALSE
    /\ dl_result = NoResult
DataIdle == MergeIdle /\ BatchIdle /\ InfoIdle /\ DownloadIdle

----------------------------------------------------------------------------
(* Bounds of the model *)

MaxRows == 5
MaxPrice == 2

EntityIds == {1, 2}
Prices == -1..MaxPrice

----------------------------------------------------------------------------
(* Floats *)

NaN == [k |-> "nan", n |-> 0, d |-> 1, r |-> 1]
Inf(s) == [k |-> "inf", n |-> s, d |-> 1, r |-> 1]
Fin(n, d, r) == [k |-> "fin", n |-> n, d |-> d, r |-> r]

IsNaN(x) == x.k = "nan"
IsInf(x) == x.k = "inf"

Sign(a) == IF a > 0 THEN 1 ELSE IF a < 0 THEN -1 ELSE 0
Abs(a) == IF a < 0 THEN -a ELSE a

RECURSIVE GCD(_, _)
GCD(a, b) == IF b = 0 THEN a ELSE GCD(b, a % b)

\* sign of a float: 2 stands for "no sign" (NaN)
FSign(x) == IF IsNaN(x) THEN 2 ELSE Sign(x.n)

\* numpy true division of two numbers: x/0 is +-inf, 0/0 is nan
TrueDivide(a, b) ==
    IF b = 0
    THEN IF a = 0 THEN NaN ELSE Inf(Sign(a))
    ELSE LET g == GCD(Abs(a), Abs(b))
         IN  Fin((a * Sign(b)) \div g, Abs(b) \div g, 1)

RECURSIVE SumTo(_, _)
SumTo(f, n) == IF n = 0 THEN 0 ELSE f[n - 1] + SumTo(f, n - 1)

\* np.std(w) of the n values w[0..n-1] (ddof = 0) is sqrt(StdRad(w, n)) / n
StdRad(w, n) ==
    n * SumTo([j \in 0..(n - 1) |-> w[j] * w[j]], n) - SumTo(w, n) * SumTo(w, n)

\* float x divided by the standard deviation sqrt(rad) / n
DivByStd(x, rad, n) ==
    IF IsNaN(x) THEN NaN
    ELSE IF IsInf(x) THEN Inf(x.n)
    ELSE IF rad = 0
         THEN IF x.n = 0 THEN NaN ELSE Inf(Sign(x.n))
         ELSE Fin(x.n * n, x.d, rad)

----------------------------------------------------------------------------
(* calculate_factor_MOM_vol_adj *)

N == 3

ALen(a) == Cardinality(DOMAIN a)

\* np.where(groups[1:] != groups[:-1])[0] + 1
GroupChanges(g) == {i \in 1..(ALen(g) - 1) : g[i] # g[i - 1]}

RECURSIVE SortedSeq(_)
SortedSeq(S) ==
    IF S = {} THEN <<>>
    ELSE LET m == CHOOSE x \in S : \A y \in S : x <= y
         IN  <<m>> \o SortedSeq(S \ {m})

GroupStarts(g) == <<0>> \o SortedSeq(GroupChanges(g))
GroupEnds(g) == SortedSeq(GroupChanges(g)) \o <<ALen(g)>>

\* np.full_like(prices, np.nan, dtype=np.float64)
FullNaNZeros(p) == [i \in DOMAIN p |-> Fin(0, 1, 1)]
FullNaN(p) == [i \in DOMAIN p |-> NaN]

\* prices[start:end]
GroupPrices(p, start, end) == [i \in 0..(end - start - 1) |-> p[start + i]]

\* returns[N:] = (group_prices[N:] - group_prices[:-N]) / group_prices[:-N]
ReturnsSwapped(gp) ==
    [i \in DOMAIN gp |->
        IF i < N THEN NaN ELSE TrueDivide(gp[i - N] - gp[i], gp[i - N])]
Returns(gp) ==
    [i \in DOMAIN gp |->
        IF i < N THEN NaN ELSE TrueDivide(gp[i] - gp[i - N], gp[i - N])]

\* past_N_prices = group_prices[i-N:i]
PastNPricesInclusive(gp, i) == [j \in 0..(N - 1) |-> gp[i - N + 1 + j]]
PastNPrices(gp, i) == [j \in 0..(N - 1) |-> gp[i - N + j]]

\* std_values[i] = np.std(past_N_prices), kept as the radicand
StdValues(gp) ==
    [i \in {j \in DOMAIN gp : j >= N} |-> StdRad(PastNPrices(gp, i), N)]

\* factor_values[start+N:end] = returns[N:] / std_values[N:]
WriteGroup(fv, p, start, end) ==
    LET gp == GroupPrices(p, start, end)
        returns == Returns(gp)
        std_values == StdValues(gp)
    IN  [t \in DOMAIN fv |->
            IF t >= start + N /\ t < end
            THEN DivByStd(returns[t - start], std_values[t - start], N)
            ELSE fv[t]]

\* if end - start > N
EnoughDataOffByOne(start, end) == end - start > N + 1
EnoughData(start, end) == end - start > N

Arrays(S) == UNION {[0..(n - 1) -> S] : n \in 0..MaxRows}

\* the panel the function is called with; the first entity is named 1
MomInit ==
    /\ stage = "momentum"
    /\ pc = "loop"
    /\ groups \in {g \in Arrays(EntityIds) : ALen(g) > 0 => g[0] = 1}
    /\ prices \in [DOMAIN groups -> Prices]
    /\ factor_values = FullNaN(prices)
    /\ gidx = 1
    /\ StdIdle /\ NeutIdle /\ DataIdle

\* one iteration of: for start, end in zip(group_starts, group_ends)
MomGroupStep ==
    /\ stage = "momentum" /\ pc = "loop"
    /\ gidx <= Len(GroupStarts(groups))
    /\ LET start == GroupStarts(groups)[gidx]
           end == GroupEnds(groups)[gidx]
       IN  factor_values' = IF EnoughData(start, end)
                            THEN WriteGroup(factor_values, prices, start, end)
                            ELSE factor_values
    /\ gidx' = gidx + 1
    /\ UNCHANGED <<stage, dataVars, pc, groups, prices, stdVars, neutVars>>

\* return pd.Series(factor_values, ...)
MomReturn ==
    /\ stage = "momentum" /\ pc = "loop"
    /\ gidx > Len(GroupStarts(groups))
    /\ pc' = "done"
    /\ UNCHANGED <<stage, dataVars, momVars, stdVars, neutVars>>

MomNext == MomGroupStep \/ MomReturn
SpecMom == MomInit /\ [][MomNext]_vars

----------------------------------------------------------------------------
(* Properties of calculate_factor_MOM_vol_adj *)

Rows == DOMAIN groups
MomDone == stage = "momentum" /\ pc = "done"

\* the maximal contiguous run of equal entity ids around row t: [RunStart, RunEnd)
RunStart(t) ==
    CHOOSE s \in 0..t :
        /\ \A i \in s..t : groups[i] = groups[t]
        /\ s > 0 => groups[s - 1] # groups[t]
RunEnd(t) ==
    CHOOSE e \in (t + 1)..ALen(groups) :
        /\ \A i \in t..(e - 1) : groups[i] = groups[t]
        /\ e < ALen(groups) => groups[e] # groups[t]
RunLen(t) == RunEnd(t) - RunStart(t)

HasWindow(t) == t - RunStart(t) >= N
\* the N prices before row t, and their volatility (as the radicand)
Window(t) == [j \in 0..(N - 1) |-> prices[t - N + j]]
WindowVol(t) == StdRad(Window(t), N)
WindowFlat(t) == \A j \in 1..N : prices[t - j] = prices[t - 1]

\* C2: when the N prices before row t are all equal (zero volatility),
\* factor_raw[t] is NaN, never +inf or -inf
C2_ZeroVolatilityGivesNaN ==
    MomDone =>
        \A t \in Rows : (HasWindow(t) /\ WindowFlat(t)) => IsNaN(factor_values[t])

\* C6: every row of a run of length <= N, and the first N rows of every run,
\* have factor_raw = NaN (at every point of the computation)
C6_InsufficientHistoryIsNaN ==
    stage = "momentum" =>
        \A t \in Rows :
            (RunLen(t) <= N \/ t < RunStart(t) + N) => IsNaN(factor_values[t])

C6_Witness ==
    /\ MomDone
    /\ \E t \in Rows : RunLen(t) <= N /\ IsNaN(factor_values[t])
    /\ \E t \in Rows : /\ RunLen(t) > N /\ ~ HasWindow(t) /\ IsNaN(factor_values[t])
                       /\ ~ IsNaN(factor_values[RunEnd(t) - 1])

\* C7: a run of length exactly N+1 has exactly one non-NaN factor_raw value,
\* at its last row, whatever its prices are
C7_ExactlyOneValueAtLastRow ==
    MomDone =>
        \A t \in Rows :
            RunLen(t) = N + 1 =>
                {u \in RunStart(t)..(RunEnd(t) - 1) : ~ IsNaN(factor_values[u])}
                    = {RunEnd(t) - 1}

\* C7 amended: in a run of length exactly N+1 the first N rows are NaN, and
\* the last row is NaN exactly when its return is 0/0 (first and last price
\* both zero) or its factor is 0/0 (last price equal to the first while the
\* volatility of the first N prices is zero)
C7_AtMostOneValueAtLastRow ==
    MomDone =>
        \A t \in Rows :
            RunLen(t) = N + 1 =>
                LET s == RunStart(t)
                IN  /\ \A u \in s..(s + N - 1) : IsNaN(factor_values[u])
                    /\ IsNaN(factor_values[s + N]) <=>
                          \/ prices[s + N] = prices[s] /\ WindowVol(s + N) = 0
                          \/ prices[s] = 0 /\ prices[s + N] = 0

C7_Witness ==
    /\ MomDone
    /\ \E t \in Rows : /\ RunLen(t) = N + 1
                       /\ WindowVol(RunEnd(t) - 1) > 0
                       /\ ~ IsNaN(factor_values[RunEnd(t) - 1])
                       /\ \A u \in RunStart(t)..(RunEnd(t) - 2) :
                             IsNaN(factor_values[u])

\* C8: with volatility > 0, the sign of factor_raw[t] is the sign of
\* close_price[t] - close_price[t-N], for every close_price[t-N]
C8_SignMatchesPriceChange ==
    MomDone =>
        \A t \in Rows :
            (HasWindow(t) /\ WindowVol(t) > 0) =>
                FSign(factor_values[t]) = Sign(prices[t] - prices[t - N])

\* C8 amended: the same, for rows whose close_price[t-N] is positive
C8_SignMatchesForPositiveBase ==
    MomDone =>
        \A t \in Rows :
            (HasWindow(t) /\ WindowVol(t) > 0 /\ prices[t - N] > 0) =>
                FSign(factor_values[t]) = Sign(prices[t] - prices[t - N])

C8_Witness ==
    /\ MomDone
    /\ \E t \in Rows : /\ HasWindow(t) /\ WindowVol(t) > 0 /\ prices[t - N] > 0
                       /\ prices[t] < prices[t - N]
                       /\ FSign(factor_values[t]) = -1

\* C9: factor_raw[t] of a row with N earlier rows in its run is the return
\* from close_price[t-N] to close_price[t] over the volatility of the N prices
\* at t-N..t-1, all of them rows of the same run; nothing else is read
C9_FactorReadsOwnWindowOnly ==
    MomDone =>
        \A t \in Rows :
            HasWindow(t) =>
                /\ RunStart(t) <= t - N
                /\ factor_values[t] =
                      DivByStd(TrueDivide(prices[t] - prices[t - N], prices[t - N]),
                               WindowVol(t), N)

C9_Witness ==
    /\ MomDone
    /\ \E t \in Rows : /\ HasWindow(t) /\ RunStart(t) > 0
                       /\ factor_values[t].k = "fin"
                       /\ prices[t] # prices[t - 1]
                       /\ prices[RunStart(t) - 1] # prices[RunStart(t)]

----------------------------------------------------------------------------
(* standardize_factor *)

MaxStdRows == 4
MaxFactor == 2

Dates == {1, 2}
\* values of the raw factor column: NaN or a small number
RawFactors == {NaN} \cup {Fin(v, 1, 1) : v \in 0..MaxFactor}

\* n: the clip width of median_method
MadWidth == 3

RECURSIVE SortBy(_, _)
\* the values f[i], i \in I, in ascending order
SortBy(f, I) ==
    IF I = {} THEN <<>>
    ELSE LET m == CHOOSE i \in I : \A j \in I : f[i] <= f[j]
         IN  <<f[m]>> \o SortBy(f, I \ {m})

RECURSIVE SumOver(_, _)
SumOver(f, I) ==
    IF I = {} THEN 0
    ELSE LET i == CHOOSE j \in I : TRUE IN f[i] + SumOver(f, I \ {i})

\* twice np.median of the values f[i], i \in I (I not empty)
Median2(f, I) ==
    LET srt == SortBy(f, I)
        m == Len(srt)
    IN  IF m % 2 = 1 THEN 2 * srt[(m + 1) \div 2]
        ELSE srt[m \div 2] + srt[m \div 2 + 1]

\* np.clip(x, lo, hi)
Clip(x, lo, hi) == IF x < lo THEN lo ELSE IF x > hi THEN hi ELSE x

\* the body of median_method(series, n) on rows I that hold no NaN; numbers
\* are carried multiplied by 4 so that both medians stay whole
MedianOfValues(col, I, n) ==
    LET arr == [i \in I |-> 4 * col[i].n]
        xm == 2 * Median2([i \in I |-> col[i].n], I)
        dev == [i \in I |-> Abs(arr[i] - xm)]
        dmad == Median2(dev, I) \div 2
        upper_bound == xm + n * dmad
        lower_bound == xm - n * dmad
        adjusted == [i \in I |-> Clip(arr[i], lower_bound, upper_bound)]
        m == Cardinality(I)
        sum == SumOver(adjusted, I)
        rad == m * SumOver([i \in I |-> adjusted[i] * adjusted[i]], I)
                 - sum * sum
    IN  \* (adjusted - np.mean(adjusted)) / np.std(adjusted)
        [i \in I |-> DivByStd(Fin(m * adjusted[i] - sum, m, 1), rad, m)]

\* median_method(series, n) for the rows I of one date: np.median, np.clip,
\* np.mean and np.std all propagate NaN, so one NaN makes every entry NaN
MedianMethodSkipNaN(col, I, n) ==
    LET V == {i \in I : ~ IsNaN(col[i])}
    IN  [i \in I |-> IF i \in V THEN MedianOfValues(col, V, n)[i] ELSE NaN]
MedianMethod(col, I, n) ==
    IF \E i \in I : IsNaN(col[i])
    THEN [i \in I |-> NaN]
    ELSE MedianOfValues(col, I, n)

\* rank_method(series) for the rows I of one date: series.rank() gives NaN
\* rows no rank and ties their average rank (carried doubled); mean() and
\* std() (ddof = 1) skip the NaN rows
RankMethod(col, I) ==
    LET V == {i \in I : ~ IsNaN(col[i])}
        ranks == [i \in V |->
                    2 * Cardinality({j \in V : col[j].n < col[i].n})
                      + Cardinality({j \in V : col[j].n = col[i].n}) + 1]
        m == Cardinality(V)
        sum == SumOver(ranks, V)
        rad == m * SumOver([i \in V |-> ranks[i] * ranks[i]], V) - sum * sum
    IN  [i \in I |->
            IF i \notin V \/ m < 2 \/ rad = 0 THEN NaN
            ELSE Fin((m * ranks[i] - sum) * (m - 1), 1, (m - 1) * m * rad)]

DateRows(dts, d) == {i \in DOMAIN dts : dts[i] = d}

\* data.groupby('日期')[factor].transform(lambda x: median_method(x, n))
TransformMedian(dts, col, n) ==
    [i \in DOMAIN dts |-> MedianMethod(col, DateRows(dts, dts[i]), n)[i]]
\* data.groupby('日期')[factor].transform(lambda x: rank_method(x))
TransformRank(dts, col) ==
    [i \in DOMAIN dts |-> RankMethod(col, DateRows(dts, dts[i]))[i]]

StdArrays(S) == UNION {[0..(n - 1) -> S] : n \in 0..MaxStdRows}

StdInit ==
    /\ stage = "standardize"
    /\ pc = "median"
    /\ std_columns \in {{"date", "factor"}, {"date"}, {"factor"}}
    /\ std_dates \in StdArrays(Dates)
    /\ std_factor \in [DOMAIN std_dates -> RawFactors]
    /\ median_col = Empty
    /\ rank_col = Empty
    /\ MomIdle /\ NeutIdle /\ DataIdle

\* if factor not in data.columns: print warning; continue  -- then return data
StdFactorNotFound ==
    /\ stage = "standardize" /\ pc = "median"
    /\ "factor" \notin std_columns
    /\ pc' = "done"
    /\ UNCHANGED <<stage, dataVars, momVars, stdVars, neutVars>>

\* data.groupby('日期') without the date column raises KeyError
StdNoDateColumn ==
    /\ stage = "standardize" /\ pc = "median"
    /\ "factor" \in std_columns /\ "date" \notin std_columns
    /\ pc' = "raised"
    /\ UNCHANGED <<stage, dataVars, momVars, stdVars, neutVars>>

\* data[f"{factor}.median_std"] = ...transform(median_method)
StdMedian ==
    /\ stage = "standardize" /\ pc = "median"
    /\ {"factor", "date"} \subseteq std_columns
    /\ median_col' = TransformMedian(std_dates, std_factor, MadWidth)
    /\ std_columns' = std_columns \cup {"factor.median_std"}
    /\ pc' = "rank"
    /\ UNCHANGED <<stage, dataVars, momVars, neutVars, std_dates, std_factor, rank_col>>

\* data[f"{factor}.rank_std"] = ...transform(rank_method); return data
StdRank ==
    /\ stage = "standardize" /\ pc = "rank"
    /\ rank_col' = TransformRank(std_dates, std_factor)
    /\ std_columns' = std_columns \cup {"factor.rank_std"}
    /\ pc' = "done"
    /\ UNCHANGED <<stage, dataVars, momVars, neutVars, std_dates, std_factor, median_col>>

StdNext == StdFactorNotFound \/ StdNoDateColumn \/ StdMedian \/ StdRank
SpecStd == StdInit /\ [][StdNext]_vars

----------------------------------------------------------------------------
(* Properties of standardize_factor *)

StdDone == stage = "standardize" /\ pc = "done" /\ "factor" \in std_columns

NonNaNRows(col, d) == {i \in DateRows(std_dates, d) : ~ IsNaN(col[i])}
DistinctRaw(d) ==
    {std_factor[i].n : i \in NonNaNRows(std_factor, d)}

\* the non-NaN entries of col on date d exist, have mean 0, and have standard
\* deviation 1 with the given ddof; an entry is n / (d * sqrt(r))
MeanZeroStdOne(col, d, ddof) ==
    LET V == NonNaNRows(col, d)
        one == col[CHOOSE i \in V : TRUE]
    IN  /\ V # {}
        /\ \A i \in V : col[i].k = "fin" /\ col[i].d = one.d /\ col[i].r = one.r
        /\ SumOver([i \in V |-> col[i].n], V) = 0
        /\ SumOver([i \in V |-> col[i].n * col[i].n], V)
             = (Cardinality(V) - ddof) * one.d * one.d * one.r

\* C5: on every date with at least 2 distinct factor_raw values, the non-NaN
\* entries of factor.median_std and of factor.rank_std have mean 0 and
\* standard deviation 1 (each with the ddof of its own method)
C5_StandardizedMeanZeroStdOne ==
    StdDone =>
        \A d \in Dates :
            Cardinality(DistinctRaw(d)) >= 2 =>
                /\ MeanZeroStdOne(median_col, d, 0)
                /\ MeanZeroStdOne(rank_col, d, 1)

\* C12: whenever standardize_factor returns, the panel has one row per input
\* row and holds both new columns factor.median_std and factor.rank_std
C12_ReturnsWithBothColumns ==
    (stage = "standardize" /\ pc = "done") =>
        /\ {"factor.median_std", "factor.rank_std"} \subseteq std_columns
        /\ DOMAIN median_col = DOMAIN std_dates
        /\ DOMAIN rank_col = DOMAIN std_dates


\* C16: if any row of a date has NaN factor_raw, every row of that date is
\* NaN in factor.median_std, the rows with a factor_raw of their own included
C16_OneNaNBlanksDateMedian ==
    (stage = "standardize" /\ pc \in {"rank", "done"}
        /\ "factor.median_std" \in std_columns) =>
        \A d \in Dates :
            (\E i \in DateRows(std_dates, d) : IsNaN(std_factor[i])) =>
                \A i \in DateRows(std_dates, d) : IsNaN(median_col[i])

\* a date with one NaN and two distinct factor_raw values is all NaN in
\* median_std while rank_std still has values there
C16_Witness ==
    /\ StdDone
    /\ \E d \in Dates :
          /\ \E i \in DateRows(std_dates, d) : IsNaN(std_factor[i])
          /\ Cardinality(DistinctRaw(d)) >= 2
          /\ \A i \in DateRows(std_dates, d) : IsNaN(median_col[i])
          /\ \E i \in DateRows(std_dates, d) : ~ IsNaN(rank_col[i])


----------------------------------------------------------------------------
(* neutralize_factor *)

MaxRegular == 10
MaxMcap == 2

\* len(y) < 10
MinObs == 10

AllColumns == {"date", "mcap", "industry", "median_std", "rank_std"}
industry_cols == <<"industry">>
required_cols == {"date", "mcap"}

McapValues == {NaN} \cup {Fin(v, 1, 1) : v \in -1..MaxMcap}

\* np.log of a market cap: nan for nan and negatives, -inf for 0;
\* "log" with n = v stands for the finite number log(v)
Log(x) ==
    IF IsNaN(x) \/ x.n < 0 THEN NaN
    ELSE IF x.n = 0 THEN Inf(-1)
    ELSE [k |-> "log", n |-> x.n, d |-> 1, r |-> 1]

\* data['log_mcap'] = np.log(data['流通市值'].astype(np.float64))
LogMcap(p) == [i \in DOMAIN p |-> Log(p[i].mcap)]

\* [col for col in data.columns if col.endswith('.median_std') or ...]
FactorColumns(cols) ==
    SelectSeq(<<"median_std", "rank_std">>, LAMBDA c : c \in cols)

PanelRows(p, d) == {i \in DOMAIN p : p[i].date = d}
\* the keys of data.groupby('日期'), ascending
PanelDates(p) == SortedSeq({p[i].date : i \in DOMAIN p})

\* daily_data[industry_cols].idxmax(axis=1): per row, the label of the first
\* of the columns industry_cols that holds the row's largest value
IdxMax(row) ==
    LET val == [c \in 1..Len(industry_cols) |-> row.ind]
        best == CHOOSE c \in 1..Len(industry_cols) :
                    /\ \A c2 \in 1..Len(industry_cols) : val[c2] <= val[c]
                    /\ \A c2 \in 1..(c - 1) : val[c2] < val[c]
    IN  industry_cols[best]

\* pd.get_dummies(industries, drop_first=True): one column per distinct
\* label, without the first of them
GetDummies(labels) ==
    IF labels = {} THEN {} ELSE labels \ {CHOOSE l \in labels : TRUE}

\* if len(y) < 10 or X.shape[1] >= len(y): return None
TooFewRowsNoMinimum(n, ncols) == ncols >= n
TooFewRows(n, ncols) == n < MinObs \/ ncols >= n

\* sm.add_constant(X, has_constant='raise') raises when a column of X is a
\* non-zero constant; the only varying column of X is log_mcap
HasNonzeroConstant(lm, V) ==
    /\ \A i \in V : lm[i].k = "log" /\ lm[i].n # 1
    /\ \A i, j \in V : lm[i] = lm[j]

\* np.linalg.matrix_rank(X) < X.shape[1] for X = [const | log_mcap]
\* (industry_dummies never has a column: idxmax yields one label for all rows)
RankDeficient(lm, V) == \A i, j \in V : lm[i] = lm[j]

\* safe_daily_regression(y[valid_idx], X[valid_idx]) for the valid rows V:
\* resid says whether residuals are returned (else None), failed whether the
\* except branch printed; svd_raises: whether the SVD of a matrix holding
\* -inf raises or yields a NaN rank
SafeDailyRegression(lm, V, dummies, svd_raises) ==
    LET n == Cardinality(V)
        ncols == Cardinality(dummies) + 1
    IN  IF TooFewRows(n, ncols) THEN [resid |-> FALSE, failed |-> FALSE]
        ELSE IF HasNonzeroConstant(lm, V) THEN [resid |-> FALSE, failed |-> TRUE]
        ELSE IF \E i \in V : IsInf(lm[i])
             THEN [resid |-> FALSE, failed |-> svd_raises]
        ELSE IF RankDeficient(lm, V) THEN [resid |-> FALSE, failed |-> FALSE]
        ELSE [resid |-> TRUE, failed |-> FALSE]

\* valid_idx = y.notna() & X.notna().all(axis=1)
ValidRows(p, d) ==
    {i \in PanelRows(p, d) : p[i].y # "nan" /\ ~ IsNaN(LogMcap(p)[i])}

\* (col - col.mean()) / col.std() over the whole column: all NaN when fewer
\* than 2 values or when the values have zero spread
GlobalStandardize(col, zero_std) ==
    IF Cardinality({i \in DOMAIN col : col[i] # "nan"}) < 2 \/ zero_std
    THEN [i \in DOMAIN col |-> "nan"]
    ELSE col

\* the panels of the model: per date a block of regular rows (industry 1,
\* factor present, market caps alternating 1, 2 or all 1 when flat) and at
\* most one row that differs from a regular row in one field
RegularRow(d, j, flat) ==
    [date |-> d, ind |-> 1, y |-> "val",
     mcap |-> Fin(IF flat THEN 1 ELSE 1 + (j % 2), 1, 1)]
OddRows(d) ==
    {<<>>, <<[date |-> d, ind |-> 2, y |-> "val", mcap |-> Fin(1, 1, 1)]>>,
           <<[date |-> d, ind |-> 1, y |-> "nan", mcap |-> Fin(1, 1, 1)]>>}
    \cup {<<[date |-> d, ind |-> 1, y |-> "val", mcap |-> m]>> :
            m \in McapValues \ {Fin(1, 1, 1)}}
Blocks(d, G, odds) ==
    {[j \in 1..g |-> RegularRow(d, j, flat)] \o odd :
        g \in G, flat \in BOOLEAN, odd \in odds}
ToArray(sq) == [i \in 0..(Len(sq) - 1) |-> sq[i + 1]]
Panels == {ToArray(b1 \o b2) : b1 \in Blocks(1, 0..MaxRegular, OddRows(1)),
                               b2 \in Blocks(2, 0..MaxRegular, OddRows(2))}
\* the panels tried with an incomplete set of columns: one row per date
SmallPanels == {ToArray(b1 \o b2) : b1 \in Blocks(1, {1}, {<<>>}),
                                    b2 \in Blocks(2, {1}, {<<>>})}

\* the row labels of the model: all different, or (in panels whose rows all
\* have a factor value, industry 1 and a positive market cap) the label of
\* row 0 is also the label of row 1 or of the first row of the last date
IndexLabels(p) ==
    LET unique == [i \in DOMAIN p |-> i]
        plain == \A i \in DOMAIN p :
                    p[i].y = "val" /\ p[i].ind = 1 /\ p[i].mcap \in {Fin(1, 1, 1), Fin(2, 1, 1)}
        later == {1} \cup {j \in DOMAIN p :
                              /\ p[j].date # p[0].date
                              /\ \A k \in DOMAIN p : k < j => p[k].date # p[j].date}
    IN  {unique} \cup
        (IF plain THEN {[unique EXCEPT ![j] = 0] : j \in later \cap DOMAIN p}
         ELSE {})

\* factor_series.loc[daily_data.index]: for each row of the date, every row
\* of the panel that carries its label; the number of rows selected
LocLength(idx, I) ==
    SumOver([i \in I |-> Cardinality({j \in DOMAIN idx : idx[j] = idx[i]})], I)

\* neutralized.loc[daily_data.index[valid_idx]] = residuals assigns by label:
\* the rows of the panel that carry the label of a valid row
WriteTargetsLocalPosition(idx, I, V) ==
    {Cardinality({k \in I : k < i}) : i \in V}
WriteTargets(idx, I, V) ==
    {j \in DOMAIN idx : \E i \in V : idx[j] = idx[i]}

\* except Exception ...: continue  -- the loop goes on with the next date
\* whether or not the date failed
NextDateStopOnError(di, ndates, errored) ==
    IF errored THEN ndates + 1 ELSE di + 1
NextDate(di, ndates, errored) == di + 1

Unbuilt == [built |-> FALSE, cols |-> {}]
NoError == [err |-> "none", cols |-> {}]

NeutInit ==
    /\ stage = "neutralize"
    /\ pc = "start"
    /\ industry_dtype \in {"object", "numeric"}
    /\ \/ columns = AllColumns /\ panel \in Panels
       \/ columns \in (SUBSET AllColumns) \ {AllColumns} /\ panel \in SmallPanels
    /\ index \in IndexLabels(panel)
    /\ factor_columns = Empty /\ fidx = 0 /\ date_i = 0
    /\ neutralized = Empty /\ design = Empty /\ out = Empty
    /\ printed = Empty /\ raised = NoError
    /\ MomIdle /\ StdIdle /\ DataIdle

NeutUnchangedInput ==
    UNCHANGED <<stage, dataVars, momVars, stdVars, columns, industry_dtype, panel, index>>

\* if missing_cols: raise ValueError(f"缺少必要的列: {missing_cols}")
NeutMissingRequired ==
    /\ stage = "neutralize" /\ pc = "start"
    /\ required_cols \ columns # {}
    /\ raised' = [err |-> "missing_required", cols |-> required_cols \ columns]
    /\ pc' = "raised"
    /\ NeutUnchangedInput
    /\ UNCHANGED <<factor_columns, fidx, date_i, neutralized, design, out, printed>>

\* if not factor_columns: raise ValueError("未找到标准化后的因子列")
NeutNoFactorColumns ==
    /\ stage = "neutralize" /\ pc = "start"
    /\ required_cols \subseteq columns
    /\ FactorColumns(columns) = <<>>
    /\ raised' = [err |-> "no_factor_columns", cols |-> {}]
    /\ pc' = "raised"
    /\ NeutUnchangedInput
    /\ UNCHANGED <<factor_columns, fidx, date_i, neutralized, design, out, printed>>

\* the first factor column is taken up: neutralized = pd.Series(np.nan, ...)
NeutBegin ==
    /\ stage = "neutralize" /\ pc = "start"
    /\ required_cols \subseteq columns
    /\ FactorColumns(columns) # <<>>
    /\ factor_columns' = FactorColumns(columns)
    /\ fidx' = 1
    /\ date_i' = 1
    /\ neutralized' = [i \in DOMAIN panel |-> "nan"]
    /\ design' = [d \in {panel[i].date : i \in DOMAIN panel} |-> Unbuilt]
    /\ pc' = "dates"
    /\ NeutUnchangedInput
    /\ UNCHANGED <<out, printed, raised>>

\* one iteration of: for date, daily_data in data.groupby('日期')
NeutDateStep ==
    /\ stage = "neutralize" /\ pc = "dates"
    /\ date_i <= Len(PanelDates(panel))
    /\ LET d == PanelDates(panel)[date_i]
           I == PanelRows(panel, d)
           ndates == Len(PanelDates(panel))
       IN  IF "industry" \notin columns \/ industry_dtype = "object"
           THEN \* KeyError / TypeError of idxmax, caught per date
                /\ printed' = Append(printed, [msg |-> "date_error", date |-> d])
                /\ date_i' = NextDate(date_i, ndates, TRUE)
                /\ UNCHANGED <<neutralized, design>>
           ELSE LET industries == {IdxMax(panel[i]) : i \in I}
                    industry_dummies == GetDummies(industries)
                    V == ValidRows(panel, d)
                    built == [design EXCEPT ![d] =
                                [built |-> TRUE,
                                 cols |-> industry_dummies \cup {"log_mcap"}]]
                IN  IF LocLength(index, I) # Cardinality(I)
                    THEN \* a label of the date occurs twice in data.index: y
                         \* and valid_idx have more rows than X and than
                         \* daily_data.index, so no statement up to and
                         \* including the assignment can complete; the date
                         \* ends in the outer except (IndexError), in the inner
                         \* except (sizes differ) or at the row-count guard
                         \E how \in {"date_error", "regression_failed", "none"} :
                            /\ design' = built
                            /\ printed' =
                                  IF how = "none" THEN printed
                                  ELSE Append(printed, [msg |-> how, date |-> d])
                            /\ date_i' = NextDate(date_i, ndates, how # "none")
                            /\ UNCHANGED neutralized
                    ELSE \E svd_raises \in BOOLEAN :
                         LET res == SafeDailyRegression(LogMcap(panel), V,
                                                 industry_dummies, svd_raises)
                             W == WriteTargets(index, I, V)
                         IN  /\ design' = built
                             /\ neutralized' =
                                   IF res.resid
                                   THEN [i \in DOMAIN panel |->
                                          IF i \in W THEN "val" ELSE neutralized[i]]
                                   ELSE neutralized
                             /\ printed' =
                                   IF res.failed
                                   THEN Append(printed,
                                          [msg |-> "regression_failed", date |-> d])
                                   ELSE printed
                             /\ date_i' = NextDate(date_i, ndates, res.failed)
    /\ NeutUnchangedInput
    /\ UNCHANGED <<pc, factor_columns, fidx, out, raised>>

\* data[neutralized_col] = neutralized, re-standardized over the whole column;
\* then the next factor column, or return data
NeutColumnDone ==
    /\ stage = "neutralize" /\ pc = "dates"
    /\ date_i > Len(PanelDates(panel))
    /\ \E zero_std \in BOOLEAN :
           out' = Append(out, GlobalStandardize(neutralized, zero_std))
    /\ IF fidx < Len(factor_columns)
       THEN /\ fidx' = fidx + 1
            /\ date_i' = 1
            /\ neutralized' = [i \in DOMAIN panel |-> "nan"]
            /\ pc' = pc
       ELSE /\ pc' = "done"
            /\ UNCHANGED <<fidx, date_i, neutralized>>
    /\ NeutUnchangedInput
    /\ UNCHANGED <<factor_columns, design, printed, raised>>

NeutNext ==
    \/ NeutMissingRequired
    \/ NeutNoFactorColumns
    \/ NeutBegin
    \/ NeutDateStep
    \/ NeutColumnDone
SpecNeut == NeutInit /\ [][NeutNext]_vars

----------------------------------------------------------------------------
(* Properties of neutralize_factor *)

InNeut == stage = "neutralize"
NeutDone == InNeut /\ pc = "done"
NeutDates == {panel[i].date : i \in DOMAIN panel}
Industries(d) == {panel[i].ind : i \in PanelRows(panel, d)}
NumValid(d) == Cardinality(ValidRows(panel, d))

\* every row of date d is NaN in the Series being filled and in every
\* finished <factor>_neutral column
AllNaNOn(d) ==
    \A i \in PanelRows(panel, d) :
        /\ neutralized[i] = "nan"
        /\ \A c \in 1..Len(out) : out[c][i] = "nan"
SomeValueOn(d) ==
    \E i \in PanelRows(panel, d) : \E c \in 1..Len(out) : out[c][i] = "val"

\* C1: the design matrix built for a date has one indicator column per
\* industry present on the date but one (k industries, k-1 columns), plus
\* the log(market_cap) column
C1_DesignHasIndustryIndicators ==
    InNeut =>
        \A d \in DOMAIN design :
            design[d].built =>
                /\ "log_mcap" \in design[d].cols
                /\ Cardinality(design[d].cols \ {"log_mcap"})
                     = Cardinality(Industries(d)) - 1

\* C3: a date whose design matrix has, counted with the intercept, at least
\* as many columns as the date has valid rows is skipped: all its rows stay NaN
C3_SkippedWhenColumnsReachRows ==
    InNeut =>
        \A d \in DOMAIN design :
            (design[d].built /\ Cardinality(design[d].cols) + 1 >= NumValid(d))
                => AllNaNOn(d)

C3_Witness ==
    /\ NeutDone
    /\ \E d \in DOMAIN design :
          /\ design[d].built
          /\ NumValid(d) = Cardinality(design[d].cols) + 1
          /\ \A i, j \in ValidRows(panel, d) :
                i # j => LogMcap(panel)[i] # LogMcap(panel)[j]
          /\ AllNaNOn(d)
    /\ \E d \in DOMAIN design : SomeValueOn(d)

\* the columns neutralize_factor needs that the panel lacks
MissingColumns ==
    ({"date", "mcap", "industry"} \ columns)
        \cup (IF FactorColumns(columns) = <<>> THEN {"factor"} ELSE {})

\* C4: when a needed column is absent the run is aborted by one error raised
\* before any date is processed; it is never reported per date, and the
\* function never returns a result
C4_MissingColumnAbortsUpfront ==
    (InNeut /\ MissingColumns # {}) =>
        /\ pc # "done"
        /\ \A m \in 1..Len(printed) : printed[m].msg # "date_error"
        /\ pc = "raised" => raised.err # "none"

\* C10: every row of a date with fewer than 10 valid rows is NaN in the
\* neutralized column, before and after the global re-standardization
C10_FewValidRowsGiveNaN ==
    (InNeut /\ pc \in {"dates", "done"}) =>
        \A d \in NeutDates : NumValid(d) < MinObs => AllNaNOn(d)

C10_Witness ==
    /\ NeutDone
    /\ \E d \in NeutDates :
          /\ NumValid(d) = MinObs - 1
          /\ Cardinality(PanelRows(panel, d)) >= MinObs
          /\ \E i, j \in ValidRows(panel, d) :
                LogMcap(panel)[i] # LogMcap(panel)[j]
          /\ AllNaNOn(d)
    /\ \E d \in NeutDates : SomeValueOn(d)

\* a market cap that has no logarithm: zero, negative or NaN
BadMcap(x) == IsNaN(x) \/ x.n <= 0
\* the rows of date d with a factor value and a usable market cap
UsableRows(d) ==
    {i \in PanelRows(panel, d) : panel[i].y # "nan" /\ ~ BadMcap(panel[i].mcap)}
\* the fit guard over the usable rows of date d: at least 10 rows, more rows
\* than columns (intercept and log market cap), and full column rank
PassesFitGuard(d) ==
    /\ Cardinality(UsableRows(d)) >= MinObs
    /\ Cardinality(UsableRows(d)) > 2
    /\ \E i, j \in UsableRows(d) : panel[i].mcap # panel[j].mcap
\* the date loop of the column being filled has gone past date d
DateProcessed(d) ==
    \/ pc = "done"
    \/ pc = "dates" /\ \E k \in 1..(date_i - 1) :
                           k <= Len(PanelDates(panel)) /\ PanelDates(panel)[k] = d

\* no two rows of the panel carry the same index label
UniqueIndex == \A i, j \in DOMAIN index : index[i] = index[j] => i = j

\* C11: with a numeric industry column and unique row labels, once a date is
\* processed each of its rows whose market cap is zero, negative or NaN is NaN,
\* and if the other usable rows pass the fit guard each of them holds a residual
C11_BadMcapRowExcludedOthersFit ==
    (InNeut /\ columns = AllColumns /\ industry_dtype = "numeric" /\ UniqueIndex) =>
        \A d \in NeutDates :
            DateProcessed(d) =>
                /\ \A i \in PanelRows(panel, d) :
                      BadMcap(panel[i].mcap) => neutralized[i] = "nan"
                /\ PassesFitGuard(d) =>
                      \A i \in UsableRows(d) : neutralized[i] = "val"

\* processing date d reaches the regression: the industry column can be read
\* and no label of the date occurs twice in the index
ReachesRegression(d) ==
    /\ "industry" \in columns /\ industry_dtype = "numeric"
    /\ LocLength(index, PanelRows(panel, d)) = Cardinality(PanelRows(panel, d))
\* date d, taken by itself, passes the fit guard and is fit
DateFits(d) ==
    /\ ReachesRegression(d)
    /\ \A svd_raises \in BOOLEAN :
          SafeDailyRegression(LogMcap(panel), ValidRows(panel, d),
                              {}, svd_raises).resid
\* the loop body ran for date d: it built the design matrix or printed the
\* date's error
DateHandled(d) ==
    \/ design[d].built
    \/ \E m \in 1..Len(printed) : printed[m] = [msg |-> "date_error", date |-> d]

\* C13: once the date loop has passed a date, the date was handled; a date
\* that failed (exception or guard rejection) is NaN on every row, a date that
\* passes the fit guard holds residuals on its valid rows whatever happened on
\* the other dates, and the date loop itself never raises
C13_FailureStaysInsideItsDate ==
    InNeut =>
        /\ pc = "raised" => date_i = 0
        /\ pc \in {"dates", "done"} =>
              \A d \in NeutDates :
                  DateProcessed(d) =>
                      /\ DateHandled(d)
                      /\ ~ DateFits(d) =>
                            \A i \in PanelRows(panel, d) : neutralized[i] = "nan"
                      /\ DateFits(d) =>
                            \A i \in ValidRows(panel, d) : neutralized[i] = "val"

\* the first date failed with a printed error and is all NaN, the second date
\* was processed after it and holds residuals
C13_Witness ==
    /\ NeutDone
    /\ \E d1, d2 \in NeutDates :
          /\ d1 < d2
          /\ NumValid(d1) >= MinObs
          /\ \E m \in 1..Len(printed) : printed[m].date = d1
          /\ AllNaNOn(d1)
          /\ DateFits(d2)
          /\ \A i \in ValidRows(panel, d2) : neutralized[i] = "val"

\* C14: the step that processes one date leaves the entry of every row of
\* another date as it was, also when index labels occur more than once
C14_DateStepWritesOwnRowsOnly ==
    [][(pc = "dates" /\ pc' = "dates" /\ fidx' = fidx
            /\ date_i <= Len(PanelDates(panel)))
        => \A i \in DOMAIN panel :
              panel[i].date # PanelDates(panel)[date_i]
                  => neutralized'[i] = neutralized[i]]_vars

\* two rows of the first date share a label and that date stays NaN; the
\* second date was fit after it and holds residuals on its own rows
C14_Witness ==
    /\ NeutDone
    /\ ~ UniqueIndex
    /\ \E d1, d2 \in NeutDates :
          /\ d1 < d2
          /\ NumValid(d1) >= MinObs
          /\ \A i \in PanelRows(panel, d1) : neutralized[i] = "nan"
          /\ \A i \in ValidRows(panel, d2) : neutralized[i] = "val"
          /\ NumValid(d2) >= MinObs

----------------------------------------------------------------------------
(* merge_all_stocks_data  (src/data/merge_data.py) *)

MaxFiles == 3
MaxDate == 2

PipelineIdle == MomIdle /\ StdIdle /\ NeutIdle

\* a stock CSV as pd.read_csv meets it: unreadable (read_csv raises), without
\* a usable 股票代码 column, or the rows of one stock, one per date
Frames ==
    {[kind |-> k, code |-> c, dates |-> {}] :
        k \in {"unreadable", "no_code"}, c \in 1..MaxFiles}
    \cup {[kind |-> "data", code |-> c, dates |-> D] :
            c \in 1..MaxFiles, D \in SUBSET (1..MaxDate)}

\* the rows of a frame, in file order
FrameRows(f) ==
    LET ds == SortedSeq(f.dates)
    IN  [k \in 1..Len(ds) |-> [code |-> f.code, date |-> ds[k]]]

\* not ('股票代码' not in df.columns or df['股票代码'].isna().all());
\* all() of no rows is True, so a frame without rows is skipped as well
FrameKept(f) == f.kind = "data" /\ f.dates # {}

\* pd.concat(all_dataframes, ignore_index=True)
RECURSIVE Concat(_)
Concat(frames) ==
    IF frames = <<>> THEN <<>>
    ELSE FrameRows(Head(frames)) \o Concat(Tail(frames))

\* merged_df.sort_values(['日期', '股票代码']): ascending by date, rows of
\* one date ascending by stock code
DateThenCode(a, b) ==
    a.date < b.date \/ (a.date = b.date /\ a.code <= b.code)
RECURSIVE SortRows(_)
SortRows(S) ==
    IF S = {} THEN <<>>
    ELSE LET first == CHOOSE a \in S : \A b \in S : DateThenCode(a, b)
         IN  <<first>> \o SortRows(S \ {first})
SortValues(rows) == SortRows({rows[k] : k \in 1..Len(rows)})

MergeInit ==
    /\ stage = "merge"
    /\ pc = "read"
    /\ merge_columns \in {{"code", "date"}, {"code"}}
    /\ csv_files \in {f \in UNION {[1..n -> Frames] : n \in 0..MaxFiles} :
                        \A i, j \in DOMAIN f : f[i].code = f[j].code => i = j}
    /\ file_i = 1
    /\ all_dataframes = Empty /\ merged_df = Empty /\ index_levels = Empty
    /\ saved = FALSE
    /\ PipelineIdle /\ BatchIdle /\ InfoIdle /\ DownloadIdle

MergeUnchanged ==
    UNCHANGED <<stage, momVars, stdVars, neutVars, batchVars, infoVars, dlVars,
                merge_columns, csv_files>>

\* if not csv_files: print("未找到CSV文件"); return
MergeNoFiles ==
    /\ stage = "merge" /\ pc = "read"
    /\ csv_files = <<>>
    /\ pc' = "done"
    /\ MergeUnchanged
    /\ UNCHANGED <<file_i, all_dataframes, merged_df, index_levels, saved>>

\* one iteration of: for i, csv_file in enumerate(csv_files)
MergeReadFile ==
    /\ stage = "merge" /\ pc = "read"
    /\ file_i <= Len(csv_files)
    /\ all_dataframes' =
          IF FrameKept(csv_files[file_i])
          THEN Append(all_dataframes, csv_files[file_i])
          ELSE all_dataframes
    /\ file_i' = file_i + 1
    /\ MergeUnchanged
    /\ UNCHANGED <<pc, merged_df, index_levels, saved>>

\* if not all_dataframes: print("没有成功读取任何数据"); return
MergeNothingRead ==
    /\ stage = "merge" /\ pc = "read"
    /\ csv_files # <<>> /\ file_i > Len(csv_files)
    /\ all_dataframes = <<>>
    /\ pc' = "done"
    /\ MergeUnchanged
    /\ UNCHANGED <<file_i, all_dataframes, merged_df, index_levels, saved>>

\* concat, sort_values, set_index, to_parquet; the statistics printed after
\* the save read the index level 股票代码 (KeyError when it was not set)
MergeSortSave ==
    /\ stage = "merge" /\ pc = "read"
    /\ csv_files # <<>> /\ file_i > Len(csv_files)
    /\ all_dataframes # <<>>
    /\ merged_df' = IF "date" \in merge_columns
                    THEN SortValues(Concat(all_dataframes))
                    ELSE Concat(all_dataframes)
    /\ index_levels' = IF {"date", "code"} \subseteq merge_columns
                       THEN <<"code", "date">> ELSE <<>>
    /\ saved' = TRUE
    /\ pc' = IF {"date", "code"} \subseteq merge_columns THEN "done" ELSE "raised"
    /\ MergeUnchanged
    /\ UNCHANGED <<file_i, all_dataframes>>

MergeNext == MergeNoFiles \/ MergeReadFile \/ MergeNothingRead \/ MergeSortSave
SpecMerge == MergeInit /\ [][MergeNext]_vars

\* rows ascending by entity id, rows of one entity ascending by date
EntityThenDate(rows) ==
    \A i, j \in 1..Len(rows) :
        i < j => \/ rows[i].code < rows[j].code
                 \/ rows[i].code = rows[j].code /\ rows[i].date <= rows[j].date
\* all rows of one entity are next to each other
EntityContiguous(rows) ==
    \A i, j, k \in 1..Len(rows) :
        (i < j /\ j < k /\ rows[i].code = rows[k].code)
            => rows[j].code = rows[i].code

\* C15: the saved panel of stock files that carry a date column has its rows
\* sorted by entity id first and by date second, so that the rows of each
\* entity form one contiguous block
C15_MergedSortedByEntityThenDate ==
    (stage = "merge" /\ saved /\ "date" \in merge_columns) =>
        /\ EntityThenDate(merged_df)
        /\ EntityContiguous(merged_df)

----------------------------------------------------------------------------
(* download_batch_data  (src/data.py and src/data/get_raw_data.py) *)

MaxStocks == 2
MaxList == 3

StockLists == UNION {[1..n -> 1..MaxStocks] : n \in 0..MaxList}

BatchInit ==
    /\ stage = "batch"
    /\ pc = "loop"
    /\ batch_module \in {"data", "get_raw_data"}
    /\ stock_list \in StockLists
    /\ existing \in SUBSET (1..MaxStocks)
    /\ success = "unbound"
    /\ batch_i = 1
    /\ results = Empty /\ batch_log = Empty
    /\ PipelineIdle /\ MergeIdle /\ InfoIdle /\ DownloadIdle

BatchUnchanged ==
    UNCHANGED <<stage, momVars, stdVars, neutVars, mergeVars, infoVars, dlVars,
                batch_module, stock_list>>

\* the condition of the skip test: os.path.exists(csv_file) in get_raw_data.py,
\* os.path.exists(csv_file) and success in data.py
SkipTest(module, exists, succ) ==
    IF module = "get_raw_data" THEN exists
    ELSE IF ~ exists THEN FALSE
    ELSE succ = "True"

\* src/data.py: the file exists and success has not been assigned yet, so
\* evaluating `success` raises UnboundLocalError
BatchUnboundSuccess ==
    /\ stage = "batch" /\ pc = "loop"
    /\ batch_i <= Len(stock_list)
    /\ batch_module = "data"
    /\ stock_list[batch_i] \in existing
    /\ success = "unbound"
    /\ batch_log' = Append(batch_log, [code |-> stock_list[batch_i],
                                       existed |-> TRUE, called |-> FALSE])
    /\ pc' = "raised"
    /\ BatchUnchanged
    /\ UNCHANGED <<existing, success, batch_i, results>>

\* the skip test holds: continue
BatchSkip ==
    /\ stage = "batch" /\ pc = "loop"
    /\ batch_i <= Len(stock_list)
    /\ LET code == stock_list[batch_i]
       IN  /\ ~ (batch_module = "data" /\ code \in existing /\ success = "unbound")
           /\ SkipTest(batch_module, code \in existing, success)
           /\ batch_log' = Append(batch_log, [code |-> code, existed |-> TRUE,
                                              called |-> FALSE])
    /\ batch_i' = batch_i + 1
    /\ BatchUnchanged
    /\ UNCHANGED <<pc, existing, success, results>>

\* stock_code, success, count = download_stock_data(...); results.append(...)
\* download_stock_data writes the CSV exactly when it reports success
BatchDownload ==
    /\ stage = "batch" /\ pc = "loop"
    /\ batch_i <= Len(stock_list)
    /\ LET code == stock_list[batch_i]
       IN  /\ ~ (batch_module = "data" /\ code \in existing /\ success = "unbound")
           /\ ~ SkipTest(batch_module, code \in existing, success)
           /\ \E ok \in BOOLEAN :
                 /\ success' = IF ok THEN "True" ELSE "False"
                 /\ results' = Append(results, [code |-> code, success |-> ok])
                 /\ existing' = IF ok THEN existing \cup {code} ELSE existing
           /\ batch_log' = Append(batch_log, [code |-> code,
                                              existed |-> code \in existing,
                                              called |-> TRUE])
    /\ batch_i' = batch_i + 1
    /\ BatchUnchanged
    /\ UNCHANGED pc

\* return results
BatchReturn ==
    /\ stage = "batch" /\ pc = "loop"
    /\ batch_i > Len(stock_list)
    /\ pc' = "done"
    /\ BatchUnchanged
    /\ UNCHANGED <<existing, success, batch_i, results, batch_log>>

BatchNext == BatchUnboundSuccess \/ BatchSkip \/ BatchDownload \/ BatchReturn
SpecBatch == BatchInit /\ [][BatchNext]_vars

\* C17: download_batch_data never raises, calls download_stock_data for no
\* stock whose file exists and for every stock whose file does not exist, and
\* when it has returned it has gone through the whole list
C17_SkipsExistingDownloadsMissing ==
    stage = "batch" =>
        /\ pc # "raised"
        /\ \A k \in 1..Len(batch_log) :
              batch_log[k].called = ~ batch_log[k].existed
        /\ pc = "done" => Len(batch_log) = Len(stock_list)

----------------------------------------------------------------------------
(* add_info_to_stock_data  (src/data/get_raw_data.py) *)

MaxInfoFiles == 3

\* of the columns of a stock CSV, the two the function looks at:
\* "mktcap" is 总市值, "industry" is 行业
InfoColumns == {"mktcap", "industry"}
StockFiles ==
    UNION {[1..n -> [readable : BOOLEAN, cols : SUBSET InfoColumns]] :
             n \in 0..MaxInfoFiles}

InfoInit ==
    /\ stage = "info"
    /\ pc = "loop"
    /\ stock_files \in StockFiles
    /\ disk_cols = [k \in DOMAIN stock_files |-> stock_files[k].cols]
    /\ info_i = 1
    /\ info_requests = 0
    /\ rewritten = {}
    /\ PipelineIdle /\ MergeIdle /\ BatchIdle /\ DownloadIdle

InfoUnchanged ==
    UNCHANGED <<stage, momVars, stdVars, neutVars, mergeVars, batchVars, dlVars,
                stock_files>>

\* one iteration of: for i, file_path in enumerate(stock_files)
InfoFileStep ==
    /\ stage = "info" /\ pc = "loop"
    /\ info_i <= Len(stock_files)
    /\ LET f == stock_files[info_i]
           \* df['行业'] = industry
           df_cols == disk_cols[info_i] \cup {"industry"}
       IN  IF ~ f.readable
           THEN \* pd.read_csv raises: except ..., continue
                UNCHANGED <<disk_cols, info_requests, rewritten>>
           ELSE IF "mktcap" \in disk_cols[info_i]
           THEN \* 已有总市值信息，跳过
                UNCHANGED <<disk_cols, info_requests, rewritten>>
           ELSE IF "industry" \in df_cols
           THEN \* 已有行业信息，跳过 -- tested after the column was added
                /\ info_requests' = info_requests + 1
                /\ UNCHANGED <<disk_cols, rewritten>>
           ELSE \* second get_stock_info; df.to_csv(file_path, index=False)
                /\ info_requests' = info_requests + 2
                /\ disk_cols' = [disk_cols EXCEPT ![info_i] = df_cols]
                /\ rewritten' = rewritten \cup {info_i}
    /\ info_i' = info_i + 1
    /\ InfoUnchanged
    /\ UNCHANGED pc

\* the loop is over: the function returns
InfoReturn ==
    /\ stage = "info" /\ pc = "loop"
    /\ info_i > Len(stock_files)
    /\ pc' = "done"
    /\ InfoUnchanged
    /\ UNCHANGED <<disk_cols, info_i, info_requests, rewritten>>

InfoNext == InfoFileStep \/ InfoReturn
SpecInfo == InfoInit /\ [][InfoNext]_vars

\* C18: when add_info_to_stock_data has returned, every readable stock CSV
\* that had neither a 总市值 nor a 行业 column was written back to disk and
\* the file on disk has a 行业 column
C18_IndustryColumnWrittenBack ==
    (stage = "info" /\ pc = "done") =>
        \A k \in DOMAIN stock_files :
            (stock_files[k].readable /\ stock_files[k].cols = {})
                => k \in rewritten /\ "industry" \in disk_cols[k]

----------------------------------------------------------------------------
(* download_stock_data  (src/data.py and src/data/get_raw_data.py) *)

\* max_retries=3
DefaultMaxRetries == 3
\* start_year <= 2010 and end_year >= 2020
RequiredStartYear == 2010
RequiredEndYear == 2020

StartYears == {RequiredStartYear - 1, RequiredStartYear, RequiredStartYear + 1}
EndYears == {RequiredEndYear - 1, RequiredEndYear, RequiredEndYear + 1}

\* what one pass through the try block can end in: an exception raised by
\* os.makedirs (before the provider is called), by ak.stock_zh_a_hist, by
\* pd.to_datetime or by df.to_csv; a None or empty frame; or a frame whose
\* dates run from start_year to end_year
Outcome(kind, sy, ey) == [kind |-> kind, start_year |-> sy, end_year |-> ey]
Outcomes ==
    {Outcome(k, 0, 0) : k \in {"makedirs_raises", "call_raises",
                               "parse_raises", "no_data"}}
    \cup {Outcome(k, sy, ey) : k \in {"data", "write_raises"},
                               sy \in StartYears, ey \in EndYears}

\* if start_year <= 2010 and end_year >= 2020
CoversYearsEither(sy, ey) == sy <= RequiredStartYear \/ ey >= RequiredEndYear
CoversYears(sy, ey) == sy <= RequiredStartYear /\ ey >= RequiredEndYear

\* the outcomes that leave the try block through except Exception
Raises(o) ==
    \/ o.kind \in {"makedirs_raises", "call_raises", "parse_raises"}
    \/ o.kind = "write_raises" /\ CoversYears(o.start_year, o.end_year)
\* the outcomes in which ak.stock_zh_a_hist was called
CallsProvider(o) == o.kind # "makedirs_raises"

\* if attempt < max_retries - 1: warn, sleep, go round again
RetryAfterError(att, retries) == att < retries - 1

Failure == [success |-> FALSE, count |-> 0]

DlInit ==
    /\ stage = "download"
    /\ pc = "loop"
    /\ dl_code \in {"nan", "blank", "valid"}
    /\ max_retries \in 0..DefaultMaxRetries
    /\ attempt = 0
    /\ provider_calls = 0
    /\ dl_log = Empty
    /\ csv_written = FALSE
    /\ dl_result = NoResult
    /\ PipelineIdle /\ MergeIdle /\ BatchIdle /\ InfoIdle

DlUnchanged ==
    UNCHANGED <<stage, momVars, stdVars, neutVars, mergeVars, batchVars,
                infoVars, dl_code, max_retries>>

\* if pd.isna(stock_code) ... / if not stock_code_str or ... == 'nan':
\*     return stock_code, False, 0
DlInvalidCode ==
    /\ stage = "download" /\ pc = "loop"
    /\ dl_code # "valid"
    /\ dl_result' = Failure
    /\ pc' = "returned"
    /\ DlUnchanged
    /\ UNCHANGED <<attempt, provider_calls, dl_log, csv_written>>

\* one iteration of: for attempt in range(max_retries)
DlAttempt ==
    /\ stage = "download" /\ pc = "loop"
    /\ dl_code = "valid"
    /\ attempt < max_retries
    /\ \E o \in Outcomes :
          /\ dl_log' = Append(dl_log, o)
          /\ provider_calls' = provider_calls + (IF CallsProvider(o) THEN 1 ELSE 0)
          /\ IF Raises(o)
             THEN /\ UNCHANGED csv_written
                  /\ IF RetryAfterError(attempt, max_retries)
                     THEN /\ attempt' = attempt + 1
                          /\ UNCHANGED <<pc, dl_result>>
                     ELSE /\ dl_result' = Failure
                          /\ pc' = "returned"
                          /\ UNCHANGED attempt
             ELSE /\ IF o.kind # "no_data" /\ CoversYears(o.start_year, o.end_year)
                     THEN /\ csv_written' = TRUE
                          /\ dl_result' = [success |-> TRUE, count |-> 1]
                     ELSE /\ UNCHANGED csv_written
                          /\ dl_result' = Failure
                  /\ pc' = "returned"
                  /\ UNCHANGED attempt
    /\ DlUnchanged

\* the for loop ends without a return in its body: return stock_code, False, 0
DlLoopExhausted ==
    /\ stage = "download" /\ pc = "loop"
    /\ dl_code = "valid"
    /\ attempt >= max_retries
    /\ dl_result' = Failure
    /\ pc' = "returned"
    /\ DlUnchanged
    /\ UNCHANGED <<attempt, provider_calls, dl_log, csv_written>>

DlNext == DlInvalidCode \/ DlAttempt \/ DlLoopExhausted
SpecDownload == DlInit /\ [][DlNext]_vars
\* every step of the function is taken once it is enabled
SpecDownloadFair == SpecDownload /\ WF_vars(DlNext)

\* the provider is called at most max_retries times, each attempt but the last
\* raised, a return after nothing but raised attempts is (False, 0), and
\* success is returned only for data covering 2010..2020 that was written
DlSafe ==
    /\ provider_calls <= max_retries
    /\ Len(dl_log) <= max_retries
    /\ \A k \in 1..(Len(dl_log) - 1) : Raises(dl_log[k])
    /\ pc = "returned" =>
          /\ (\A k \in 1..Len(dl_log) : Raises(dl_log[k])) => dl_result = Failure
          /\ dl_result.success =>
                /\ dl_log # <<>>
                /\ dl_log[Len(dl_log)].kind = "data"
                /\ dl_log[Len(dl_log)].start_year <= RequiredStartYear
                /\ dl_log[Len(dl_log)].end_year >= RequiredEndYear
                /\ csv_written

\* C19: download_stock_data returns, after at most max_retries provider calls;
\* a further attempt follows only an attempt that raised, the result is
\* (False, 0) when every attempt raised, and success is True only for
\* non-empty data starting in or before 2010 and ending in or after 2020 whose
\* CSV was written
C19_TerminatesWithinMaxRetries ==
    /\ [](stage = "download" => DlSafe)
    /\ <>(stage = "download" => pc = "returned")

\* two attempts raised and the third, the last one allowed, returned success
C19_Witness ==
    /\ stage = "download" /\ pc = "returned"
    /\ max_retries = DefaultMaxRetries
    /\ Len(dl_log) = max_retries
    /\ provider_calls = max_retries
    /\ dl_result.success /\ csv_written

====
